---- MODULE Spec2Model ----
(***************************************************************************)
(* Model of the risk-aware shot planner of players/g4_player.py.           *)
(*                                                                         *)
(* Numbers.  Coordinates are integers (game units).  A distance d >= 0 is  *)
(* carried as the integer 121 * d^2, which is exact for every distance the *)
(* planner computes: Euclidean distances between grid points (d^2 is an    *)
(* integer) divided by the roll factor 1.0 or 1.1 (d^2 * 100 / 121).       *)
(* Comparisons of distances are comparisons of these integers.  An angle   *)
(* atan2(dy, dx) is carried as the reduced direction vector <<dy, dx>>:    *)
(* two angles are equal iff their reduced vectors are.                     *)
(***************************************************************************)
EXTENDS Integers, Sequences, FiniteSets, TLC

\* ------------------------------------------------------------------------
\* Engine constants (module constants of the game engine)
\* ------------------------------------------------------------------------
max_dist == 200
min_putter_dist == 20
\* constants.extra_roll = 0.1, in tenths
extra_roll_tenths == 1

\* ------------------------------------------------------------------------
\* Player.__init__ parameters
\* ------------------------------------------------------------------------
\* self.risk = 0.1, in percent
risk_percent == 10
\* self.simulate_times: the number of simulated trials per command.  The
\* program sets 100; the model runs the same loop with fewer trials.
simulate_times == 10

\* ------------------------------------------------------------------------
\* Arithmetic helpers
\* ------------------------------------------------------------------------
Abs(a) == IF a < 0 THEN -a ELSE a

Min(a, b) == IF a <= b THEN a ELSE b

Max(a, b) == IF a >= b THEN a ELSE b

RECURSIVE Gcd(_, _)
Gcd(a, b) == IF b = 0 THEN a ELSE Gcd(b, a % b)

\* squared Euclidean distance of two points (p.distance(q) squared)
Dist2(p, q) == (p[1] - q[1]) * (p[1] - q[1]) + (p[2] - q[2]) * (p[2] - q[2])

\* 121 * d^2 of the distance d whose square is d2
Sq121(d2) == 121 * d2

\* 121 * d^2 of d = sqrt(d2) / (rf / 10), rf the roll factor in tenths (10 or 11)
DivRoll(d2, rf) == d2 * ((110 \div rf) * (110 \div rf))

\* sympy.atan2(dy, dx) as a reduced direction vector
atan2(dy, dx) ==
    LET g == Gcd(Abs(dy), Abs(dx))
    IN  IF g = 0 THEN <<0, 0>> ELSE <<dy \div g, dx \div g>>

\* ------------------------------------------------------------------------
\* point_inside_polygon (g4_player.py:15-29)
\* ------------------------------------------------------------------------
\* the edge test of line 24, as written (its last conjunct compares p1x to p2y)
EdgeInBand(p1x, p1y, p2x, p2y, px, py) ==
    /\ Min(p1y, p2y) < py
    /\ py <= Max(p1y, p2y)
    /\ px <= Max(p1x, p2x)
    /\ p1x # p2y

\* px <= xints, xints = (py - p1y) * (p2x - p1x) / (p2y - p1y) + p1x, with the
\* division cleared (p2y # p1y inside the band)
LeftOfXints(p1x, p1y, p2x, p2y, px, py) ==
    IF p2y > p1y
    THEN (px - p1x) * (p2y - p1y) <= (py - p1y) * (p2x - p1x)
    ELSE (px - p1x) * (p2y - p1y) >= (py - p1y) * (p2x - p1x)

\* one iteration of the loop of lines 22-28: the new value of inside
EdgeFlip(p1, p2, px, py, inside) ==
    IF /\ EdgeInBand(p1[1], p1[2], p2[1], p2[2], px, py)
       /\ (p1[1] = p2[1] \/ LeftOfXints(p1[1], p1[2], p2[1], p2[2], px, py))
    THEN ~inside
    ELSE inside

RECURSIVE PipLoop(_, _, _, _, _, _)
PipLoop(poly, px, py, i, p1, inside) ==
    IF i > Len(poly)
    THEN inside
    ELSE LET p2 == poly[(i % Len(poly)) + 1]
         IN  PipLoop(poly, px, py, i + 1, p2, EdgeFlip(p1, p2, px, py, inside))

point_inside_polygon(poly, px, py) == PipLoop(poly, px, py, 1, poly[1], FALSE)

\* ------------------------------------------------------------------------
\* sympy geometry used by play: Polygon.encloses (strict interior)
\* ------------------------------------------------------------------------
Cross(a, b, p) == (b[1] - a[1]) * (p[2] - a[2]) - (b[2] - a[2]) * (p[1] - a[1])

OnSegment(a, b, p) ==
    /\ Cross(a, b, p) = 0
    /\ Min(a[1], b[1]) <= p[1] /\ p[1] <= Max(a[1], b[1])
    /\ Min(a[2], b[2]) <= p[2] /\ p[2] <= Max(a[2], b[2])

NextVertex(poly, i) == poly[(i % Len(poly)) + 1]

OnBoundary(poly, p) ==
    \E i \in 1..Len(poly) : OnSegment(poly[i], NextVertex(poly, i), p)

\* the edge from a to b crosses the horizontal ray going right from p
RayCrosses(a, b, p) ==
    /\ (a[2] > p[2]) # (b[2] > p[2])
    /\ IF b[2] > a[2]
       THEN (p[1] - a[1]) * (b[2] - a[2]) < (p[2] - a[2]) * (b[1] - a[1])
       ELSE (p[1] - a[1]) * (b[2] - a[2]) > (p[2] - a[2]) * (b[1] - a[1])

encloses(poly, p) ==
    /\ ~OnBoundary(poly, p)
    /\ Cardinality({i \in 1..Len(poly) :
                        RayCrosses(poly[i], NextVertex(poly, i), p)}) % 2 = 1

\* ------------------------------------------------------------------------
\* Player.simulate_once (g4_player.py:183-204)
\* ------------------------------------------------------------------------
\* The two normal draws of lines 184-185 give the actual stroke vector
\* actual_distance * (cos, sin)(actual_angle); the model draws it as 10 * u
\* for a grid vector u, so that the rolled vector 1.1 * 10 * u = 11 * u is
\* exact.  A commanded distance of 0 has standard deviation 0.
roll_tenths == 10 + extra_roll_tenths

IsPutt(distance) == distance < Sq121(min_putter_dist * min_putter_dist)

LandingPoint(distance, curr_loc, u) ==
    IF IsPutt(distance)
    THEN curr_loc
    ELSE <<curr_loc[1] + 10 * u[1], curr_loc[2] + 10 * u[2]>>

\* the roll applied to every stroke
FinalPointAlwaysRolls(distance, curr_loc, u) ==
    <<curr_loc[1] + roll_tenths * u[1], curr_loc[2] + roll_tenths * u[2]>>

FinalPoint(distance, curr_loc, u) ==
    IF IsPutt(distance)
    THEN <<curr_loc[1] + 10 * u[1], curr_loc[2] + 10 * u[2]>>
    ELSE <<curr_loc[1] + roll_tenths * u[1], curr_loc[2] + roll_tenths * u[2]>>

simulate_once(distance, curr_loc, golf_map, u) ==
    LET landing_point == LandingPoint(distance, curr_loc, u)
        final_point   == FinalPoint(distance, curr_loc, u)
    IN  [is_inside   |-> /\ point_inside_polygon(golf_map, landing_point[1], landing_point[2])
                         /\ point_inside_polygon(golf_map, final_point[1], final_point[2]),
         final_point |-> final_point]

\* ------------------------------------------------------------------------
\* The game the host plays: course, target, the positions it hands to play,
\* the skill it constructs the Player with, the strokes the random source
\* can draw and the intersections circle.intersection(golf_map) can return
\* ------------------------------------------------------------------------
MaxTurns == 3

GolfMap == << <<0, 0>>, <<400, 0>>, <<400, 300>>, <<300, 300>>, <<300, 100>>, <<0, 100>> >>

Target == <<350, 250>>

Locs == { <<50, 50>>, <<350, 240>> }

Skills == {10}

\* prev_admissible is None when the player has not played before (docstring
\* of play, line 71), else whether the previous stroke stayed on the course
PrevAdmissible(t) == IF t = 0 THEN {"None"} ELSE {"True", "False"}

DrawSet == { <<0, 0>>, <<0, 10>> }

Draws(distance) == IF distance = 0 THEN { <<0, 0>> } ELSE DrawSet

\* points of the course boundary, and the lists of them an intersection returns
InterResults ==
    { << >>,
      << <<250, 0>>, <<60, 0>> >>,
      << <<250, 0>>, <<250, 100>>, <<400, 200>> >>,
      << <<0, 100>>, <<50, 0>>, <<400, 100>> >> }

\* ------------------------------------------------------------------------
\* Pieces of Player.play (g4_player.py:59-181)
\* ------------------------------------------------------------------------
\* line 77: the vertices as an array of float pairs
AsArray(golf_map) == [i \in 1..Len(golf_map) |-> <<golf_map[i][1], golf_map[i][2]>>]

\* the roll expected of every stroke
RollFactorAlwaysRolls(required_dist) == roll_tenths

\* lines 82-84: roll_factor, in tenths
RollFactor(required_dist) ==
    IF required_dist < min_putter_dist * min_putter_dist THEN 10 ELSE roll_tenths

\* constants.max_dist + self.skill
MaxReach(sk) == Sq121((max_dist + sk) * (max_dist + sk))

\* the distance without the cap at the maximal reach
ShotDistanceUncapped(sk, d2, rf) == DivRoll(d2, rf)

\* lines 85 and 178: sympy.Min(constants.max_dist + self.skill, d / roll_factor)
ShotDistance(sk, d2, rf) == Min(MaxReach(sk), DivRoll(d2, rf))

\* lines 86, 152, 168, 179: the bearing from one point to another
Bearing(from, to) == atan2(to[2] - from[2], to[1] - from[1])

\* the comparison with >= in place of >
ExceedsOrEquals(failed) == failed * 100 >= simulate_times * risk_percent

\* lines 95 and 157: failed > self.tolerant_times = simulate_times * risk
Exceeds(failed) == failed * 100 > simulate_times * risk_percent

\* the condition with the sense of prev_admissible reversed
RegeneratesAfterReset(pa, remembered) == pa = "False" \/ remembered = << >>

\* the condition without its test of the remembered list
RegeneratesNever(pa, remembered) == pa = "None"

\* the condition that ignores the remembered list
RegeneratesAlways(pa, remembered) == TRUE

\* line 104: the condition under which the candidates are generated again
Regenerates(pa, remembered) == pa = "None" \/ pa = "True" \/ remembered = << >>

\* lines 112-118: midpoints of all pairs i < j, those the course encloses
RECURSIVE PairMids(_, _, _, _)
PairMids(pts, i, j, golf_map) ==
    IF i > Len(pts) THEN << >>
    ELSE IF j > Len(pts) THEN PairMids(pts, i + 1, i + 2, golf_map)
    ELSE LET middle_point == <<(pts[i][1] + pts[j][1]) \div 2,
                               (pts[i][2] + pts[j][2]) \div 2>>
             rest == PairMids(pts, i, j + 1, golf_map)
         IN  IF encloses(golf_map, middle_point)
             THEN <<middle_point>> \o rest
             ELSE rest

\* the midpoints without the test of line 117
RECURSIVE AllPairMids(_, _, _)
AllPairMids(pts, i, j) ==
    IF i > Len(pts) THEN << >>
    ELSE IF j > Len(pts) THEN AllPairMids(pts, i + 1, i + 2)
    ELSE << <<(pts[i][1] + pts[j][1]) \div 2, (pts[i][2] + pts[j][2]) \div 2>> >>
             \o AllPairMids(pts, i, j + 1)

TempMiddlePointsUnchecked(pts, golf_map) == AllPairMids(pts, 1, 2)

TempMiddlePoints(pts, golf_map) == PairMids(pts, 1, 2, golf_map)

\* the points as far from the target as the player dropped as well
KeepPointStrict(middle_point, target, required_dist) ==
    Dist2(middle_point, target) < required_dist

\* lines 125-129: drop the points farther from the target than the player
KeepPoint(middle_point, target, required_dist) ==
    ~(Dist2(middle_point, target) > required_dist)

NoRegression(temp, target, required_dist) ==
    SelectSeq(temp, LAMBDA m : KeepPoint(m, target, required_dist))

\* the filter without the fallback of lines 133-134
MiddlePointsNoFallback(temp, target, required_dist) ==
    NoRegression(temp, target, required_dist)

\* lines 125-134
MiddlePoints(temp, target, required_dist) ==
    LET kept == NoRegression(temp, target, required_dist)
    IN  IF Len(kept) = 0 THEN temp ELSE kept

\* line 145: sorted(range(n), key=...) is stable
RECURSIVE InsertIndex(_, _, _)
InsertIndex(sorted, i, key) ==
    IF sorted = << >> THEN <<i>>
    ELSE IF key[Head(sorted)] <= key[i]
         THEN <<Head(sorted)>> \o InsertIndex(Tail(sorted), i, key)
         ELSE <<i>> \o sorted

RECURSIVE SortFrom(_, _, _)
SortFrom(sorted, i, key) ==
    IF i > Len(key) THEN sorted
    ELSE SortFrom(InsertIndex(sorted, i, key), i + 1, key)

\* the candidates left in the order of the list
UnsortedIndexes(key) == [i \in 1..Len(key) |-> i]

SortedIndexes(key) == SortFrom(<< >>, 1, key)

MidToTargetDistance(middle_points, target) ==
    [i \in 1..Len(middle_points) |-> Dist2(middle_points[i], target)]

\* ------------------------------------------------------------------------
\* State
\* ------------------------------------------------------------------------
VARIABLES
    \* Player fields
    skill, turn, golf_map_np, remember_middle_points,
    \* the message this call handed to self.logger: <<level, text>> or << >>
    log,
    \* position in play: "idle", "greedy_sim", "greedy_done", "mid_sim",
    \* "mid_done", "choose", "returned", and "raised" after an exception
    pc,
    \* arguments of the call
    curr_loc, prev_admissible,
    \* locals of play
    required_dist, roll_factor, distance, angle, is_greedy, failed_times,
    trial, intersect_points_origin, middle_points, distance_sorted_indexes,
    middle_failed_times, pos, midd_index,
    \* the returned (distance, angle), << >> before the return
    ret,
    \* history: where this call's candidates came from ("none", "generated",
    \* "empty" when the generation found no midpoint, "cache"), the failures
    \* counted by the risk test that just ended, the number of calls and of
    \* map conversions so far, and the previous call
    source, counted, calls, conversions, last_pa, last_loc, last_source,
    \* history: the curr_loc of the call that wrote remember_middle_points
    remembered_at,
    \* argument and result of a function applied on its own
    fn_in, fn_out

player == <<skill, turn, golf_map_np, remember_middle_points, remembered_at>>

args == <<curr_loc, prev_admissible>>

greedy_locals == <<required_dist, roll_factor, distance, is_greedy, failed_times>>

candidates == <<middle_points, distance_sorted_indexes, middle_failed_times, pos, midd_index>>

mid_locals == <<intersect_points_origin, candidates>>

history == <<calls, conversions, last_pa, last_loc, last_source>>

harness == <<fn_in, fn_out>>

vars == <<player, log, pc, args, greedy_locals, angle, trial, mid_locals, ret,
          source, counted, history, harness>>

\* Player.__init__ (g4_player.py:39-57), which takes any skill
ConstructedWith(skills) ==
    /\ skill \in skills
    /\ remembered_at = << >>
    /\ turn = 0
    /\ golf_map_np = << >>
    /\ remember_middle_points = << >>
    /\ log = << >>
    /\ pc = "idle"
    /\ curr_loc = << >>
    /\ prev_admissible = "None"
    /\ required_dist = 0
    /\ roll_factor = 10
    /\ distance = 0
    /\ angle = <<0, 0>>
    /\ is_greedy = TRUE
    /\ failed_times = 0
    /\ trial = 0
    /\ intersect_points_origin = << >>
    /\ middle_points = << >>
    /\ distance_sorted_indexes = << >>
    /\ middle_failed_times = << >>
    /\ pos = 0
    /\ midd_index = -1
    /\ ret = << >>
    /\ source = "none"
    /\ counted = 0
    /\ calls = 0
    /\ conversions = 0
    /\ last_pa = "None"
    /\ last_loc = << >>
    /\ last_source = "none"

Constructed == ConstructedWith(Skills)

Init ==
    /\ Constructed
    /\ fn_in = << >>
    /\ fn_out = << >>

\* the host resets the player to where it was after an inadmissible stroke
HostLocs(pa) == IF pa = "False" THEN {curr_loc} ELSE Locs

\* the texts of the four log messages (lines 100, 121, 167, 180)
MsgGreedy == "select greedy strategy to go"

MsgNoMiddlePoint == "cannot find any middle point, BUG!!!"

MsgMiddlePoint == "select largest distance to middle point to go"

MsgClosest == "risky!!! select closest middle point to go"

\* the conversion repeated on every turn
AnyTurn(t) == t >= 0

\* line 76
FirstTurn(t) == t = 0

\* play, lines 76-89: the call, the conversion of the first turn, the greedy
\* command
Play(loc, pa) ==
    /\ pc \in {"idle", "returned"}
    /\ turn < MaxTurns
    /\ curr_loc' = loc
    /\ prev_admissible' = pa
    /\ golf_map_np' = IF FirstTurn(turn) THEN AsArray(GolfMap) ELSE golf_map_np
    /\ conversions' = IF FirstTurn(turn) THEN conversions + 1 ELSE conversions
    /\ turn' = turn + 1
    /\ calls' = calls + 1
    /\ required_dist' = Dist2(loc, Target)
    /\ roll_factor' = RollFactor(required_dist')
    /\ distance' = ShotDistance(skill, required_dist', roll_factor')
    /\ angle' = Bearing(loc, Target)
    /\ is_greedy' = TRUE
    /\ failed_times' = 0
    /\ trial' = 0
    /\ counted' = 0
    /\ intersect_points_origin' = << >>
    /\ middle_points' = << >>
    /\ distance_sorted_indexes' = << >>
    /\ middle_failed_times' = << >>
    /\ pos' = 0
    /\ midd_index' = -1
    /\ ret' = << >>
    /\ log' = << >>
    /\ source' = "none"
    /\ last_pa' = prev_admissible
    /\ last_loc' = curr_loc
    /\ last_source' = source
    /\ pc' = "greedy_sim"
    /\ UNCHANGED <<skill, remember_middle_points, remembered_at, harness>>

\* lines 91-97: one trial of the greedy command
GreedyTrial(u) ==
    /\ pc = "greedy_sim"
    /\ skill > 0
    /\ trial < simulate_times
    /\ LET sim == simulate_once(distance, curr_loc, GolfMap, u)
           failed == IF sim.is_inside THEN failed_times ELSE failed_times + 1
           stop == ~sim.is_inside /\ Exceeds(failed)
       IN  /\ failed_times' = failed
           /\ counted' = failed
           /\ is_greedy' = ~stop
           /\ trial' = trial + 1
           /\ pc' = IF stop \/ trial + 1 = simulate_times
                    THEN "greedy_done" ELSE "greedy_sim"
    /\ UNCHANGED <<player, log, args, required_dist, roll_factor, distance, angle,
                   mid_locals, ret, source, history, harness>>

\* lines 99-101
GreedyReturn ==
    /\ pc = "greedy_done"
    /\ is_greedy
    /\ log' = <<"info", MsgGreedy>>
    /\ ret' = <<distance, angle>>
    /\ pc' = "returned"
    /\ UNCHANGED <<player, args, greedy_locals, angle, trial, mid_locals,
                   source, counted, history, harness>>

\* lines 140-149: the order of the candidates and the counters of their tests
StartCandidates(points) ==
    /\ middle_points' = points
    /\ distance_sorted_indexes' = SortedIndexes(MidToTargetDistance(points, Target))
    /\ middle_failed_times' = [i \in 1..Len(points) |-> 0]
    /\ midd_index' = -1
    /\ pos' = 1
    /\ trial' = 0
    /\ counted' = 0
    /\ pc' = IF Len(points) = 0 THEN "choose" ELSE "mid_sim"

\* lines 104-136: the candidates are generated from the intersection of the
\* circle of the greedy distance with the course
Generate(inter) ==
    /\ pc = "greedy_done"
    /\ ~is_greedy
    /\ Regenerates(prev_admissible, remember_middle_points)
    /\ intersect_points_origin' = inter
    /\ LET temp_middle_points == TempMiddlePoints(inter, GolfMap)
       IN  IF Len(temp_middle_points) = 0
           THEN /\ source' = "empty"
                /\ log' = <<"error", MsgNoMiddlePoint>>
                /\ ret' = <<distance, angle>>
                /\ pc' = "returned"
                /\ UNCHANGED <<remember_middle_points, remembered_at, candidates,
                               trial, counted>>
           ELSE /\ source' = "generated"
                /\ remember_middle_points' =
                       MiddlePoints(temp_middle_points, Target, required_dist)
                /\ remembered_at' = curr_loc
                /\ StartCandidates(remember_middle_points')
                /\ UNCHANGED <<log, ret>>
    /\ UNCHANGED <<skill, turn, golf_map_np, args, greedy_locals, angle, history, harness>>

\* lines 137-138: the candidates of an earlier turn are taken again
UseRemembered ==
    /\ pc = "greedy_done"
    /\ ~is_greedy
    /\ ~Regenerates(prev_admissible, remember_middle_points)
    /\ source' = "cache"
    /\ StartCandidates(remember_middle_points)
    /\ UNCHANGED <<player, log, args, greedy_locals, angle, intersect_points_origin,
                   ret, history, harness>>

\* lines 151-159: one trial of the candidate at position pos of the order
MidTrial(u) ==
    /\ pc = "mid_sim"
    /\ skill > 0
    /\ trial < simulate_times
    /\ LET i == distance_sorted_indexes[pos]
           middle_point == middle_points[i]
           aim == Bearing(curr_loc, middle_point)
           sim == simulate_once(distance, curr_loc, GolfMap, u)
           failed == IF sim.is_inside THEN middle_failed_times[i]
                                      ELSE middle_failed_times[i] + 1
           stop == ~sim.is_inside /\ Exceeds(failed)
       IN  /\ angle' = aim
           /\ counted' = failed
           /\ middle_failed_times' =
                  [middle_failed_times EXCEPT ![i] = IF stop THEN -1 ELSE failed]
           /\ trial' = trial + 1
           /\ pc' = IF stop \/ trial + 1 = simulate_times
                    THEN "mid_done" ELSE "mid_sim"
    /\ UNCHANGED <<player, log, args, greedy_locals, intersect_points_origin,
                   middle_points, distance_sorted_indexes, pos, midd_index, ret,
                   source, history, harness>>

\* the loop of line 150 left after its first candidate
MidNextFirstOnly ==
    /\ pc = "mid_done"
    /\ LET i == distance_sorted_indexes[pos]
       IN  IF middle_failed_times[i] # -1
           THEN midd_index' = i
           ELSE UNCHANGED midd_index
    /\ pc' = "choose"
    /\ UNCHANGED <<player, log, args, greedy_locals, angle, intersect_points_origin,
                   middle_points, distance_sorted_indexes, middle_failed_times, pos,
                   trial, counted, ret, source, history, harness>>

\* lines 161-163 and the head of the loop of line 150
MidNext ==
    /\ pc = "mid_done"
    /\ LET i == distance_sorted_indexes[pos]
       IN  IF middle_failed_times[i] # -1
           THEN /\ midd_index' = i
                /\ pc' = "choose"
                /\ UNCHANGED <<pos, trial, counted>>
           ELSE IF pos = Len(distance_sorted_indexes)
           THEN /\ pc' = "choose"
                /\ UNCHANGED <<midd_index, pos, trial, counted>>
           ELSE /\ pos' = pos + 1
                /\ trial' = 0
                /\ counted' = 0
                /\ pc' = "mid_sim"
                /\ UNCHANGED midd_index
    /\ UNCHANGED <<player, log, args, greedy_locals, angle, intersect_points_origin,
                   middle_points, distance_sorted_indexes, middle_failed_times, ret,
                   source, history, harness>>

\* lines 165-171
CandidateReturn ==
    /\ pc = "choose"
    /\ midd_index # -1
    /\ log' = <<"info", MsgMiddlePoint>>
    /\ LET desire_distance == distance
           desire_angle == Bearing(curr_loc, middle_points[midd_index])
       IN  ret' = <<desire_distance, desire_angle>>
    /\ pc' = "returned"
    /\ UNCHANGED <<player, args, greedy_locals, angle, trial, mid_locals,
                   source, counted, history, harness>>

\* the far end of the order
FarthestIndex(sorted) == sorted[Len(sorted)]

\* line 174: distance_sorted_indexes[0]
ClosestIndex(sorted) == sorted[1]

\* lines 173-181
LeastBadReturn ==
    /\ pc = "choose"
    /\ midd_index = -1
    /\ IF Len(distance_sorted_indexes) = 0
       THEN \* distance_sorted_indexes[0] of an empty list: IndexError
            /\ pc' = "raised"
            /\ UNCHANGED <<ret, log>>
       ELSE /\ LET closest_index == ClosestIndex(distance_sorted_indexes)
                   closest_middle_point == middle_points[closest_index]
                   curr_to_mid == Dist2(closest_middle_point, curr_loc)
                   desire_distance == ShotDistance(skill, curr_to_mid, roll_factor)
                   desire_angle == Bearing(curr_loc, closest_middle_point)
               IN  ret' = <<desire_distance, desire_angle>>
            /\ log' = <<"info", MsgClosest>>
            /\ pc' = "returned"
    /\ UNCHANGED <<player, args, greedy_locals, angle, trial, mid_locals,
                   source, counted, history, harness>>

Next ==
    \/ \E pa \in PrevAdmissible(turn) : \E loc \in HostLocs(pa) : Play(loc, pa)
    \/ \E u \in Draws(distance) : GreedyTrial(u)
    \/ GreedyReturn
    \/ \E inter \in InterResults : Generate(inter)
    \/ UseRemembered
    \/ \E u \in Draws(distance) : MidTrial(u)
    \/ MidNext
    \/ CandidateReturn
    \/ LeastBadReturn

Spec == Init /\ [][Next]_vars

\* play runs to completion once called: every step of a call in progress is
\* taken; the host may stop calling
InCall == pc \in {"greedy_sim", "greedy_done", "mid_sim", "mid_done", "choose"}

Step ==
    \/ \E u \in Draws(distance) : GreedyTrial(u)
    \/ GreedyReturn
    \/ \E inter \in InterResults : Generate(inter)
    \/ UseRemembered
    \/ \E u \in Draws(distance) : MidTrial(u)
    \/ MidNext
    \/ CandidateReturn
    \/ LeastBadReturn

FairSpec == Spec /\ WF_vars(Step)

\* ------------------------------------------------------------------------
\* Players of any skill
\* ------------------------------------------------------------------------
AnySkills == {-10, 0, 10}

InitAnySkill ==
    /\ ConstructedWith(AnySkills)
    /\ fn_in = << >>
    /\ fn_out = << >>

\* lines 184-185: the standard deviations distance / skill and 1 / (2 * skill)
\* of a skill that is not positive; rng.normal raises on either
SimulateOnceRaises ==
    /\ pc \in {"greedy_sim", "mid_sim"}
    /\ skill <= 0
    /\ pc' = "raised"
    /\ UNCHANGED <<player, log, args, greedy_locals, angle, trial, mid_locals, ret,
                   source, counted, history, harness>>

NextAnySkill ==
    \/ Next
    \/ SimulateOnceRaises

SpecAnySkill == InitAnySkill /\ [][NextAnySkill]_vars

\* ------------------------------------------------------------------------
\* simulate_once applied on its own
\* ------------------------------------------------------------------------
SimLocs == { <<50, 50>>, <<350, 50>>, <<350, 229>>, <<350, 240>> }

SimDistances ==
    {ShotDistance(sk, Dist2(l, Target), RollFactor(Dist2(l, Target))) :
        sk \in Skills, l \in SimLocs}

SimDraws ==
    { <<0, 0>>, <<0, 10>>, <<20, 0>>, <<34, 0>>, <<-6, 0>>, <<-32, 0>>,
      <<3, 0>>, <<0, 3>>, <<0, -6>> }

InitSim ==
    /\ Constructed
    /\ fn_in \in [distance : SimDistances, curr_loc : SimLocs, u : SimDraws]
    /\ fn_out = << >>

ApplySimulateOnce ==
    /\ fn_out = << >>
    /\ LET sim == simulate_once(fn_in.distance, fn_in.curr_loc, GolfMap, fn_in.u)
       IN  fn_out' = <<sim.is_inside, sim.final_point>>
    /\ UNCHANGED <<player, log, pc, args, greedy_locals, angle, trial, mid_locals,
                   ret, source, counted, history, fn_in>>

NextSim == ApplySimulateOnce

SpecSim == InitSim /\ [][NextSim]_vars

\* ------------------------------------------------------------------------
\* the greedy command of lines 81-86 computed on its own
\* ------------------------------------------------------------------------
GreedySkills == {10, 50}

GreedyLocs ==
    {<<x, y>> : x \in {50, 150, 350},
                y \in {0, 18, 19, 30, 50, 100, 220, 227, 228, 229, 230, 231, 240, 245}}

InitGreedy ==
    /\ Constructed
    /\ fn_in \in [skill : GreedySkills, curr_loc : GreedyLocs]
    /\ fn_out = << >>

ApplyGreedy ==
    /\ fn_out = << >>
    /\ LET required == Dist2(fn_in.curr_loc, Target)
           factor == RollFactor(required)
       IN  fn_out' = <<ShotDistance(fn_in.skill, required, factor),
                       Bearing(fn_in.curr_loc, Target)>>
    /\ UNCHANGED <<player, log, pc, args, greedy_locals, angle, trial, mid_locals,
                   ret, source, counted, history, fn_in>>

NextGreedy == ApplyGreedy

SpecGreedy == InitGreedy /\ [][NextGreedy]_vars

\* ------------------------------------------------------------------------
\* the generation of the candidates, lines 112-136, computed on its own
\* ------------------------------------------------------------------------
MaxInter == 3

\* points of the boundary of the course a circle may cut it at
MidBoundary ==
    << <<250, 0>>, <<250, 100>>, <<400, 200>>, <<0, 100>>, <<60, 0>>, <<400, 180>> >>

\* the lists of n of these points, in the order of the boundary list
Intersections(n) ==
    {[i \in 1..n |-> MidBoundary[f[i]]] :
        f \in {g \in [1..n -> 1..Len(MidBoundary)] :
                  \A a, b \in 1..n : a < b => g[a] < g[b]}}

MidLocs == { <<50, 50>>, <<350, 50>>, <<350, 240>> }

InitMid ==
    /\ Constructed
    /\ \E n \in 2..MaxInter :
          fn_in \in [inter : Intersections(n), curr_loc : MidLocs]
    /\ fn_out = << >>

ApplyGenerate ==
    /\ fn_out = << >>
    /\ LET temp_middle_points == TempMiddlePoints(fn_in.inter, GolfMap)
       IN  fn_out' = IF Len(temp_middle_points) = 0
                     THEN <<"empty", << >> >>
                     ELSE <<"generated",
                            MiddlePoints(temp_middle_points, Target,
                                         Dist2(fn_in.curr_loc, Target))>>
    /\ UNCHANGED <<player, log, pc, args, greedy_locals, angle, trial, mid_locals,
                   ret, source, counted, history, fn_in>>

NextMid == ApplyGenerate

SpecMid == InitMid /\ [][NextMid]_vars

\* ------------------------------------------------------------------------
\* point_inside_polygon applied on its own, on convex polygons
\* ------------------------------------------------------------------------
PipSize == 2

MaxVertices == 4

\* vertices at even coordinates, test points at odd ones around and between
PipVertices == {<<2 * i, 2 * j>> : i, j \in 0..PipSize}

PipPoints == {<<2 * i - 1, 2 * j - 1>> : i, j \in 0..(PipSize + 1)}

\* every turn of the vertex list is a strict turn to the same side
Turn(poly, i) ==
    Cross(poly[i], NextVertex(poly, i), NextVertex(poly, (i % Len(poly)) + 1))

IsConvex(poly) ==
    \/ \A i \in 1..Len(poly) : Turn(poly, i) > 0
    \/ \A i \in 1..Len(poly) : Turn(poly, i) < 0

\* the convex polygons of n vertices, every order and every first vertex
ConvexPolygons(n) == {poly \in [1..n -> PipVertices] : IsConvex(poly)}

InitPip ==
    /\ Constructed
    /\ \E n \in 3..MaxVertices :
          fn_in \in [poly : ConvexPolygons(n), p : PipPoints]
    /\ fn_out = << >>

ApplyPointInsidePolygon ==
    /\ fn_out = << >>
    /\ fn_out' = <<point_inside_polygon(fn_in.poly, fn_in.p[1], fn_in.p[2])>>
    /\ UNCHANGED <<player, log, pc, args, greedy_locals, angle, trial, mid_locals,
                   ret, source, counted, history, fn_in>>

NextPip == ApplyPointInsidePolygon

SpecPip == InitPip /\ [][NextPip]_vars

\* ------------------------------------------------------------------------
\* Properties
\* ------------------------------------------------------------------------
\* 100 * tolerant_times, and floor(tolerant_times)
Tolerance100 == simulate_times * risk_percent

ToleranceFloor == Tolerance100 \div 100

\* the greedy command of the call in progress, from its arguments
GreedyCommand ==
    <<Min(121 * (max_dist + skill) * (max_dist + skill),
          DivRoll(Dist2(curr_loc, Target), RollFactor(Dist2(curr_loc, Target)))),
      Bearing(curr_loc, Target)>>

GreedyPassed == ~(failed_times * 100 > Tolerance100)

AllCandidatesRejected ==
    /\ Len(middle_points) >= 1
    /\ \A i \in 1..Len(middle_points) : middle_failed_times[i] = -1

\* C1: the fallback is strict.  A call whose greedy command passed the risk
\* test returns the greedy command; the candidates are tested only after the
\* greedy command failed; the closest candidate is taken untested only after
\* the greedy command and every candidate failed in this call.
C1_StrictFallback ==
    /\ pc \in {"mid_sim", "mid_done", "choose"} => ~GreedyPassed
    /\ pc = "returned" =>
          /\ GreedyPassed => (log[2] = MsgGreedy /\ ret = GreedyCommand)
          /\ log[2] = MsgMiddlePoint => ~GreedyPassed
          /\ log[2] = MsgClosest => (~GreedyPassed /\ AllCandidatesRejected)

C1_Witness ==
    /\ pc = "returned"
    /\ log[2] = MsgClosest
    /\ Len(middle_points) = 3

C4_DistanceWithinReach ==
    pc = "returned" => ret[1] <= 121 * (max_dist + skill) * (max_dist + skill)

C4_Witness ==
    /\ pc = "returned"
    /\ log[2] = MsgMiddlePoint
    /\ ret[1] = 121 * (max_dist + skill) * (max_dist + skill)

\* C5: a risk test rejects its command exactly when the failures counted
\* exceed simulate_times * risk; no trial is run after the count exceeded
\* it, so a rejected command has floor(tolerance) + 1 failures; an accepted
\* command has run all simulate_times trials, and never more are run.
C5_RiskTest ==
    /\ trial <= simulate_times
    /\ pc \in {"greedy_sim", "mid_sim"} => ~(counted * 100 > Tolerance100)
    /\ pc = "greedy_done" =>
          /\ ~is_greedy <=> failed_times * 100 > Tolerance100
          /\ ~is_greedy => failed_times = ToleranceFloor + 1
          /\ is_greedy => trial = simulate_times
    /\ pc = "mid_done" =>
          LET rejected == middle_failed_times[distance_sorted_indexes[pos]] = -1
          IN  /\ rejected <=> counted * 100 > Tolerance100
              /\ rejected => counted = ToleranceFloor + 1
              /\ ~rejected => /\ trial = simulate_times
                              /\ middle_failed_times[distance_sorted_indexes[pos]] = counted

C5_Witness ==
    /\ pc = "mid_done"
    /\ counted * 100 = Tolerance100
    /\ middle_failed_times[distance_sorted_indexes[pos]] = counted

\* C6: simulate_once reports a stroke admissible exactly when its landing
\* point and its final point are both inside the course, and returns the
\* final point (points on the boundary left aside).
C6_AdmissibleIffBothInside ==
    fn_out # << >> =>
        LET landing == LandingPoint(fn_in.distance, fn_in.curr_loc, fn_in.u)
            final   == FinalPoint(fn_in.distance, fn_in.curr_loc, fn_in.u)
        IN  /\ fn_out[2] = final
            /\ (~OnBoundary(GolfMap, landing) /\ ~OnBoundary(GolfMap, final)) =>
                   (fn_out[1] <=> (encloses(GolfMap, landing) /\ encloses(GolfMap, final)))

\* a point is strictly inside a convex polygon iff it is strictly on the same
\* side of every edge
StrictlyInsideConvex(poly, p) ==
    \/ \A i \in 1..Len(poly) : Cross(poly[i], NextVertex(poly, i), p) > 0
    \/ \A i \in 1..Len(poly) : Cross(poly[i], NextVertex(poly, i), p) < 0

StrictlyOutsideConvex(poly, p) ==
    ~StrictlyInsideConvex(poly, p) /\ ~OnBoundary(poly, p)

\* C7: on a convex polygon point_inside_polygon is true of every point
\* strictly inside and false of every point strictly outside.
C7_ConvexContainment ==
    fn_out # << >> =>
        /\ StrictlyInsideConvex(fn_in.poly, fn_in.p) => fn_out[1]
        /\ StrictlyOutsideConvex(fn_in.poly, fn_in.p) => ~fn_out[1]

ReachedCandidates(src) == src \in {"generated", "cache"}

NoMidpointEnclosed(pts) ==
    \A i, j \in 1..Len(pts) :
        i < j => ~encloses(GolfMap, <<(pts[i][1] + pts[j][1]) \div 2,
                                       (pts[i][2] + pts[j][2]) \div 2>>)

\* C9: when the greedy command failed and the generation found no midpoint
\* inside the course, the call returns the greedy command and logs an error.
C9_GreedyWhenNoMidpoint ==
    (source \in {"generated", "empty"} /\ NoMidpointEnclosed(intersect_points_origin)) =>
        /\ pc = "returned"
        /\ ret = GreedyCommand
        /\ log = <<"error", MsgNoMiddlePoint>>

C9_Witness ==
    /\ source = "empty"
    /\ Len(intersect_points_origin) = 2
    /\ pc = "returned"

\* C10: the course is converted into golf_map_np once, in the first call,
\* and golf_map_np stays as converted; turn counts the calls.
C10_ConvertedOnce ==
    /\ turn = calls
    /\ calls = 0 => (conversions = 0 /\ golf_map_np = << >>)
    /\ calls >= 1 => (conversions = 1 /\ golf_map_np = AsArray(GolfMap))

C10_Witness ==
    /\ calls >= 2
    /\ conversions = 1
    /\ pc = "returned"

\* the distance of candidate i of this call to the target
CandidateKey(i) == Dist2(middle_points[i], Target)

\* C15: in the Best-Candidate tier the candidates are risk-tested in
\* ascending order of their distance to the target and the testing stops at
\* the first one that passes; the returned command aims at that candidate
\* with the distance of the greedy command, and every candidate strictly
\* closer to the target than the committed one was tested and rejected in
\* this call.
C15_AscendingFirstPass ==
    /\ pc \in {"mid_sim", "mid_done", "choose"} =>
          /\ Len(distance_sorted_indexes) = Len(middle_points)
          /\ \A i \in 1..Len(middle_points) :
                \E a \in 1..Len(middle_points) : distance_sorted_indexes[a] = i
          /\ \A a, b \in 1..Len(middle_points) :
                a < b => CandidateKey(distance_sorted_indexes[a])
                            <= CandidateKey(distance_sorted_indexes[b])
          /\ \A a \in 1..Len(middle_points) :
                /\ a < pos => middle_failed_times[distance_sorted_indexes[a]] = -1
                /\ a > pos => middle_failed_times[distance_sorted_indexes[a]] = 0
    /\ (pc = "returned" /\ log = <<"info", MsgMiddlePoint>>) =>
          /\ midd_index = distance_sorted_indexes[pos]
          /\ middle_failed_times[midd_index] # -1
          /\ ret = <<GreedyCommand[1], Bearing(curr_loc, middle_points[midd_index])>>
          /\ \A j \in 1..Len(middle_points) :
                CandidateKey(j) < CandidateKey(midd_index)
                   => middle_failed_times[j] = -1

\* a call that committed to its second candidate after rejecting the closest
C15_Witness ==
    /\ pc = "returned"
    /\ log = <<"info", MsgMiddlePoint>>
    /\ pos >= 2
    /\ midd_index # 1
    /\ \E j \in 1..Len(middle_points) : CandidateKey(j) < CandidateKey(midd_index)

\* C18: when the greedy command and every candidate failed the risk test,
\* play returns the Least-Bad command in its next step, with no further
\* trial: it aims at a candidate whose distance to the target is minimal
\* over the whole candidate set, with the bearing from the current position
\* to it and the distance min(max_reach, distance(current, candidate) /
\* roll_adjustment).
C18_LeastBad ==
    [][(pc = "choose" /\ ~GreedyPassed /\ AllCandidatesRejected) =>
          /\ pc' = "returned"
          /\ trial' = trial
          /\ middle_failed_times' = middle_failed_times
          /\ failed_times' = failed_times
          /\ \E c \in 1..Len(middle_points) :
                /\ \A j \in 1..Len(middle_points) : CandidateKey(c) <= CandidateKey(j)
                /\ ret' = <<Min(121 * (max_dist + skill) * (max_dist + skill),
                                DivRoll(Dist2(curr_loc, middle_points[c]),
                                        RollFactor(Dist2(curr_loc, Target)))),
                            Bearing(curr_loc, middle_points[c])>>]_vars

\* a Least-Bad return among several candidates, the closest of which is not
\* the first of the list
C18_Witness ==
    /\ pc = "returned"
    /\ log = <<"info", MsgClosest>>
    /\ Len(middle_points) >= 2
    /\ \E j \in 2..Len(middle_points) : CandidateKey(j) < CandidateKey(1)
    /\ ret[2] = Bearing(curr_loc, middle_points[distance_sorted_indexes[1]])

\* C19: remember_middle_points is written only by a call whose greedy
\* command failed and whose regeneration found at least one interior
\* midpoint; a call that returns the greedy command, a call that finds no
\* midpoint and a call that reads the cache leave it as it was; once it is
\* not empty it is never empty again.
C19_CacheWrittenOnlyByGeneration ==
    [][/\ remember_middle_points' # remember_middle_points =>
             /\ pc = "greedy_done"
             /\ ~GreedyPassed
             /\ source' = "generated"
             /\ intersect_points_origin' \in InterResults
             /\ ~NoMidpointEnclosed(intersect_points_origin')
       /\ source' \in {"none", "empty", "cache"} =>
             remember_middle_points' = remember_middle_points
       /\ source' = "generated" => Len(remember_middle_points') >= 1
       /\ remember_middle_points # << >> => remember_middle_points' # << >>]_vars

\* a second generation replaced the cache of an earlier call
C19_Witness ==
    /\ source = "generated"
    /\ last_source = "generated"
    /\ remember_middle_points = middle_points
    /\ Len(remember_middle_points) >= 1
    /\ calls >= 2

\* C16 as stated: for a putt the landing point of simulate_once equals its
\* final point, and the verdict is the containment of that point alone.
C16_PuttLandsAtFinalPoint ==
    (fn_out # << >> /\ IsPutt(fn_in.distance)) =>
        /\ LandingPoint(fn_in.distance, fn_in.curr_loc, fn_in.u) = fn_out[2]
        /\ fn_out[1] <=> point_inside_polygon(GolfMap, fn_out[2][1], fn_out[2][2])

\* C16: for a putt simulate_once applies no roll: its final point is the
\* origin plus the actual stroke vector, its landing point is the origin
\* itself, and the verdict is the conjunction of the containment tests of
\* the origin and of the final point.
C16_PuttFromOrigin ==
    (fn_out # << >> /\ fn_in.distance < 121 * min_putter_dist * min_putter_dist) =>
        LET origin == fn_in.curr_loc
            final == <<origin[1] + 10 * fn_in.u[1], origin[2] + 10 * fn_in.u[2]>>
        IN  /\ fn_out[2] = final
            /\ LandingPoint(fn_in.distance, origin, fn_in.u) = origin
            /\ fn_out[1] <=> /\ point_inside_polygon(GolfMap, origin[1], origin[2])
                             /\ point_inside_polygon(GolfMap, final[1], final[2])

\* a putt that moved the ball and was found admissible
C16_Witness ==
    /\ fn_out # << >>
    /\ IsPutt(fn_in.distance)
    /\ fn_in.u # <<0, 0>>
    /\ fn_out[2] # fn_in.curr_loc
    /\ fn_out[1]

\* the squared distance to the target and the squared maximal reach of the
\* input of the greedy command, the latter times 121
GreedyRequired == Dist2(fn_in.curr_loc, Target)

GreedyReach == 121 * (max_dist + fn_in.skill) * (max_dist + fn_in.skill)

\* C17: the greedy command has angle = bearing from the current position to
\* the target and distance = min(max_reach, distance_to_target /
\* roll_adjustment), roll_adjustment being 1.0 when distance_to_target <
\* min_putter_dist and 1 + extra_roll otherwise; hence distance = max_reach
\* when the target is beyond max_reach * (1 + extra_roll), and distance =
\* distance_to_target within putting range.
C17_GreedyFormula ==
    fn_out # << >> =>
        LET r2 == GreedyRequired
            dx == Target[1] - fn_in.curr_loc[1]
            dy == Target[2] - fn_in.curr_loc[2]
            rolled == (121 * r2 * 100) \div (roll_tenths * roll_tenths)
        IN  /\ fn_out[1] = IF r2 < min_putter_dist * min_putter_dist
                           THEN Min(GreedyReach, 121 * r2)
                           ELSE Min(GreedyReach, rolled)
            /\ fn_out[2][1] * dx = fn_out[2][2] * dy
            /\ fn_out[2][1] * dy + fn_out[2][2] * dx > 0
            /\ Gcd(Abs(fn_out[2][1]), Abs(fn_out[2][2])) = 1
            /\ 100 * r2 > roll_tenths * roll_tenths * (max_dist + fn_in.skill)
                                                    * (max_dist + fn_in.skill)
                  => fn_out[1] = GreedyReach
            /\ r2 < min_putter_dist * min_putter_dist => fn_out[1] = 121 * r2

\* a greedy command within putting range, below the maximal reach
C17_Witness ==
    /\ fn_out # << >>
    /\ GreedyRequired < min_putter_dist * min_putter_dist
    /\ fn_out[1] = 121 * GreedyRequired
    /\ fn_out[1] < GreedyReach

\* C20: the policy and the simulator agree on whether a greedy stroke rolls:
\* a greedy distance computed with roll_adjustment = 1 + extra_roll
\* (distance_to_target >= min_putter_dist) is simulated as a rolling stroke
\* (commanded distance >= min_putter_dist), and one computed with
\* roll_adjustment = 1.0 is simulated as a putt.
C20_RollAgreement ==
    fn_out # << >> =>
        /\ GreedyRequired >= min_putter_dist * min_putter_dist
              => ~(fn_out[1] < 121 * min_putter_dist * min_putter_dist)
        /\ GreedyRequired < min_putter_dist * min_putter_dist
              => fn_out[1] < 121 * min_putter_dist * min_putter_dist

\* the interior midpoints of the pairs of the input of the generation, in the
\* order of the pairs, and the squared distance of its position to the target
InteriorMidpoints ==
    LET pts == fn_in.inter
        Mid(i, j) == <<(pts[i][1] + pts[j][1]) \div 2, (pts[i][2] + pts[j][2]) \div 2>>
        pairs == [k \in 1..(Len(pts) * Len(pts)) |-> k]
        First(k) == ((k - 1) \div Len(pts)) + 1
        Second(k) == ((k - 1) % Len(pts)) + 1
        kept == SelectSeq(pairs, LAMBDA k :
                    First(k) < Second(k) /\ encloses(GolfMap, Mid(First(k), Second(k))))
    IN  [k \in 1..Len(kept) |-> Mid(First(kept[k]), Second(kept[k]))]

MidRequired == Dist2(fn_in.curr_loc, Target)

\* C14 as stated: the generated candidate set holds only interior midpoints
\* strictly closer to the target than the current position, unless no
\* interior midpoint is strictly closer, and then it is the unfiltered set.
C14_StrictlyCloser ==
    (fn_out # << >> /\ fn_out[1] = "generated") =>
        LET set == fn_out[2]
            Closer(m) == Dist2(m, Target) < MidRequired
        IN  IF \E k \in 1..Len(InteriorMidpoints) : Closer(InteriorMidpoints[k])
            THEN set = SelectSeq(InteriorMidpoints, Closer)
            ELSE set = InteriorMidpoints

\* C14: the generated candidate set holds exactly the interior midpoints
\* that are not farther from the target than the current position (an equal
\* distance is kept), unless every interior midpoint is farther, and then it
\* is the full unfiltered set of interior midpoints.
C14_NotFarther ==
    (fn_out # << >> /\ fn_out[1] = "generated") =>
        LET set == fn_out[2]
            NotFarther(m) == Dist2(m, Target) <= MidRequired
        IN  /\ Len(InteriorMidpoints) >= 1
            /\ IF \E k \in 1..Len(InteriorMidpoints) : NotFarther(InteriorMidpoints[k])
               THEN set = SelectSeq(InteriorMidpoints, NotFarther)
               ELSE set = InteriorMidpoints

\* a generation that dropped a farther midpoint and kept one exactly as far
\* from the target as the current position
C14_Witness ==
    /\ fn_out # << >>
    /\ fn_out[1] = "generated"
    /\ Len(fn_out[2]) < Len(InteriorMidpoints)
    /\ \E k \in 1..Len(fn_out[2]) : Dist2(fn_out[2][k], Target) = MidRequired

\* C12: a Player of a skill that is not positive is rejected at construction,
\* so that every call to play is served by a Player of positive skill.
C12_NonPositiveSkillRejected == calls >= 1 => skill > 0

\* C13: whenever play takes its candidates from remember_middle_points instead
\* of generating them, that list was generated by an earlier call made at the
\* current position of the present call.
C13_CacheFromSamePosition == source = "cache" => remembered_at = curr_loc

====
